---------------------------- MODULE Spec2Model ----------------------------
(***************************************************************************)
(* taskctl: the epic/task store of plugins/controllers/scripts/taskctl.py. *)
(*                                                                         *)
(* The store is the .tasks/ directory: epics/<id>.json, specs/<id>.md,     *)
(* tasks/<id>.json and tasks/<id>.md.  Every command is one invocation of  *)
(* the CLI, run to completion (serial execution).  Identifiers are kept as *)
(* character sequences so that formatting, parsing, glob matching and the  *)
(* lexicographic order of sorted() are computed as the code computes them. *)
(***************************************************************************)
EXTENDS Integers, Sequences, FiniteSets, TLC

VARIABLES
    epics,      \* epics/<id>.json : epic id -> epic record
    tasks,      \* tasks/<id>.json : task id -> task record
    specs,      \* the ids that have a specification document (.md)
    clock,      \* the second now_iso() reports
    issued,     \* history: per live epic, the task numbers task create returned
    ops,        \* history: the number of commands that have written to the store
    reviews_dir,\* reviews/ exists
    reviews,    \* reviews/<task_id>-<timestamp>.json : file name -> receipt
    logged,     \* history: per task id, the number of review log calls that succeeded
    last,       \* trace: the command that ran last and what it did
    calls       \* the task create invocations that run interleaved: their
                \* position in cmd_task_create and their local variables

vars == <<epics, tasks, specs, clock, issued, ops, reviews_dir, reviews, logged, last, calls>>
store == <<epics, tasks, specs>>

(* everything but the trace and the interleaved invocations *)
state == <<epics, tasks, specs, clock, issued, ops, reviews_dir, reviews, logged>>

---------------------------------------------------------------------------
(* Bounds of the model *)

MaxEpicNum == 2
MaxTaskNum == 2
MaxDeps == 1
MaxClock == 1
MaxOps == 6
MaxTracedOps == 4
MaxLogs == 3

(* The inputs a caller may pass *)
Suffixes == { <<"a", "b", "c">> }
Titles == { "t" }
Reasons == { "", "why" }
Summaries == { "", "sum" }
Verdicts == { "SHIP", "needs_work", "LGTM" }
RaceTitles == { "u", "v" }
Procs == { "p", "q" }
Notes == { "", "n" }

---------------------------------------------------------------------------
(* Python values *)

None == <<>>
Some(x) == <<x>>

EPIC_STATUSES == <<"planning", "ready", "in_progress", "blocked", "done", "cancelled">>
TASK_STATUSES == <<"pending", "in_progress", "blocked", "done", "cancelled">>
REVIEW_VERDICTS == <<"SHIP", "NEEDS_WORK", "MAJOR_RETHINK">>

Range(s) == { s[i] : i \in 1..Len(s) }

(* the statuses a caller passes: the vocabulary, and one word outside it *)
EpicStatusInputs == Range(EPIC_STATUSES) \cup { "pending" }
TaskStatusInputs == Range(TASK_STATUSES) \cup { "ready" }

---------------------------------------------------------------------------
(* Strings as character sequences *)

Chars == <<"-", ".", "0", "1", "2", "3", "4", "5", "6", "7", "8", "9",
           "a", "b", "c", "d", "e", "f", "j", "n", "o", "s">>

Ord(c) == CHOOSE i \in 1..Len(Chars) : Chars[i] = c

DigitChars == <<"0", "1", "2", "3", "4", "5", "6", "7", "8", "9">>

RECURSIVE Digits(_)
Digits(n) ==
    IF n < 10 THEN << DigitChars[n + 1] >>
    ELSE Digits(n \div 10) \o << DigitChars[(n % 10) + 1] >>

IsNumeric(s) == s # <<>> /\ \A i \in 1..Len(s) : s[i] \in Range(DigitChars)

RECURSIVE ParseInt(_)
ParseInt(s) ==
    IF s = <<>> THEN 0
    ELSE 10 * ParseInt(SubSeq(s, 1, Len(s) - 1))
         + ((CHOOSE i \in 1..10 : DigitChars[i] = s[Len(s)]) - 1)

(* str < str: Python compares strings at the first position where they
   differ; a proper prefix is less *)
LexLess(a, b) ==
    LET n == IF Len(a) < Len(b) THEN Len(a) ELSE Len(b)
        diff == { i \in 1..n : a[i] # b[i] }
    IN  IF diff = {} THEN Len(a) < Len(b)
        ELSE LET k == CHOOSE i \in diff : \A j \in diff : i <= j
             IN  Ord(a[k]) < Ord(b[k])

StartsWith(s, p) == Len(s) >= Len(p) /\ SubSeq(s, 1, Len(p)) = p

(* s.split(sep) for a one-character separator *)
RECURSIVE Split(_, _)
Split(s, sep) ==
    IF \A i \in 1..Len(s) : s[i] # sep THEN << s >>
    ELSE LET k == CHOOSE i \in 1..Len(s) :
                      s[i] = sep /\ \A j \in 1..(i - 1) : s[j] # sep
         IN  << SubSeq(s, 1, k - 1) >> \o Split(SubSeq(s, k + 1, Len(s)), sep)

(* s.rsplit(".", 1) *)
RSplitDot(s) ==
    IF \A i \in 1..Len(s) : s[i] # "." THEN << s >>
    ELSE LET k == CHOOSE i \in 1..Len(s) :
                      s[i] = "." /\ \A j \in (i + 1)..Len(s) : s[j] # "."
         IN  << SubSeq(s, 1, k - 1), SubSeq(s, k + 1, Len(s)) >>

JsonExt == <<".", "j", "s", "o", "n">>

(* sorted(...) of a collection of distinct strings *)
RECURSIVE Sorted(_)
Sorted(S) ==
    IF S = {} THEN <<>>
    ELSE LET m == CHOOSE x \in S : \A y \in S \ {x} : LexLess(x, y)
         IN  << m >> \o Sorted(S \ {m})

(* sorted(dir.glob(...)): the files <id>.json in the order of their paths,
   given and returned by their stems *)
SortedPaths(S) ==
    LET files == Sorted({ id \o JsonExt : id \in S })
    IN  [ i \in 1..Len(files) |-> SubSeq(files[i], 1, Len(files[i]) - Len(JsonExt)) ]

---------------------------------------------------------------------------
(* Identifiers *)

EpicIdOf(num, suffix) == <<"c", "a", "-">> \o Digits(num) \o <<"-">> \o suffix
TaskIdOf(epic_id, task_num) == epic_id \o <<".">> \o Digits(task_num)

(* tasks_dir.glob(f"{epic_id}.*.json"): the task files of an epic *)
GlobTasks(tk, epic_id) ==
    { t \in DOMAIN tk :
        /\ StartsWith(t \o JsonExt, epic_id \o <<".">>)
        /\ Len(t \o JsonExt) >= Len(epic_id) + 1 + Len(JsonExt) }

Max(S) == IF S = {} THEN 0 ELSE CHOOSE x \in S : \A y \in S : y <= x

(* a slip in the numbering: the smallest number no epic holds is taken *)
get_next_epic_number_first_free(ep) ==
    LET nums == { ParseInt(Split(f, "-")[2]) :
                    f \in { g \in DOMAIN ep : Len(Split(g, "-")) >= 2
                                              /\ IsNumeric(Split(g, "-")[2]) } }
    IN  CHOOSE n \in 1..(Cardinality(nums) + 1) :
            n \notin nums /\ \A m \in 1..(n - 1) : m \in nums

get_next_epic_number(ep) ==
    Max({ ParseInt(Split(f, "-")[2]) :
            f \in { g \in DOMAIN ep : Len(Split(g, "-")) >= 2
                                      /\ IsNumeric(Split(g, "-")[2]) } }) + 1

(* a slip in the numbering: the epic's task files are counted *)
get_next_task_number_count(tk, epic_id) ==
    Cardinality({ g \in GlobTasks(tk, epic_id) :
                    Len(RSplitDot(g)) = 2 /\ IsNumeric(RSplitDot(g)[2]) }) + 1

get_next_task_number(tk, epic_id) ==
    Max({ ParseInt(RSplitDot(f)[2]) :
            f \in { g \in GlobTasks(tk, epic_id) :
                      Len(RSplitDot(g)) = 2 /\ IsNumeric(RSplitDot(g)[2]) } }) + 1

---------------------------------------------------------------------------
(* Records *)

(* now_iso(): the current second *)
now_iso == clock

epic_data(epic_id, title, now) ==
    [ id |-> epic_id, title |-> title, status |-> "planning",
      created_at |-> now, updated_at |-> now, complexity_score |-> None,
      task_count |-> 0, tasks_done |-> 0 ]

(* a slip in the task record: updated_at is left at the epoch *)
task_data_epoch_updated_at(task_id, epic_id, title, now) ==
    [ id |-> task_id, epic_id |-> epic_id, title |-> title, status |-> "pending",
      created_at |-> now, updated_at |-> 0,
      started_at |-> None, completed_at |-> None,
      depends_on |-> <<>>, blocked_by |-> None, done_summary |-> None ]

task_data(task_id, epic_id, title, now) ==
    [ id |-> task_id, epic_id |-> epic_id, title |-> title, status |-> "pending",
      created_at |-> now, updated_at |-> now,
      started_at |-> None, completed_at |-> None,
      depends_on |-> <<>>, blocked_by |-> None, done_summary |-> None ]

Remove(f, k) == [ x \in (DOMAIN f) \ {k} |-> f[x] ]
Put(f, k, v) == (k :> v) @@ f

Line(id, tag) == [ id |-> id, tag |-> tag ]

(* error(): the message is printed and the process exits with code 1;
   nothing is written after it *)
error(text) == UNCHANGED state

(* a command that writes to the store: counted against MaxOps *)
Writes == ops < MaxOps /\ ops' = ops + 1

---------------------------------------------------------------------------
(* Aggregation *)

(* a slip in the rescan: total is incremented only for the tasks not done *)
update_epic_task_counts_total_in_else(ep, tk, epic_id, now) ==
    IF epic_id \notin DOMAIN ep THEN ep
    ELSE LET files == GlobTasks(tk, epic_id)
             total == Cardinality({ f \in files : tk[f].status # "done" })
             done  == Cardinality({ f \in files : tk[f].status = "done" })
         IN  [ ep EXCEPT ![epic_id] =
                 [ @ EXCEPT !.task_count = total, !.tasks_done = done,
                            !.updated_at = now ] ]

(* a slip in the rescan: an epic whose tasks are all done is marked done *)
update_epic_task_counts_derives_status(ep, tk, epic_id, now) ==
    IF epic_id \notin DOMAIN ep THEN ep
    ELSE LET files == GlobTasks(tk, epic_id)
             total == Cardinality(files)
             done  == Cardinality({ f \in files : tk[f].status = "done" })
         IN  [ ep EXCEPT ![epic_id] =
                 [ @ EXCEPT !.task_count = total, !.tasks_done = done,
                            !.status = IF total > 0 /\ done = total THEN "done" ELSE @,
                            !.updated_at = now ] ]

update_epic_task_counts(ep, tk, epic_id, now) ==
    IF epic_id \notin DOMAIN ep THEN ep
    ELSE LET files == GlobTasks(tk, epic_id)
             total == Cardinality(files)
             done  == Cardinality({ f \in files : tk[f].status = "done" })
         IN  [ ep EXCEPT ![epic_id] =
                 [ @ EXCEPT !.task_count = total, !.tasks_done = done,
                            !.updated_at = now ] ]

---------------------------------------------------------------------------
(* Commands: epic *)

cmd_epic_create(title, suffix) ==
    LET num == get_next_epic_number(epics)
        epic_id == EpicIdOf(num, suffix)
    IN  /\ Writes
        /\ epics' = Put(epics, epic_id, epic_data(epic_id, title, now_iso))
        /\ specs' = specs \cup { epic_id }
        /\ issued' = Put(issued, epic_id, {})
        /\ UNCHANGED <<tasks, clock, reviews_dir, reviews, logged>>

(* a slip in epic set-status: the status is written as given *)
cmd_epic_set_status_unchecked(id, status) ==
    IF id \notin DOMAIN epics THEN error("Epic not found")
    ELSE /\ Writes
         /\ epics' = [ epics EXCEPT ![id] =
                         [ @ EXCEPT !.status = status, !.updated_at = now_iso ] ]
         /\ UNCHANGED <<tasks, specs, clock, issued, reviews_dir, reviews, logged>>

cmd_epic_set_status(id, status) ==
    IF status \notin Range(EPIC_STATUSES) THEN error("Invalid status")
    ELSE IF id \notin DOMAIN epics THEN error("Epic not found")
    ELSE /\ Writes
         /\ epics' = [ epics EXCEPT ![id] =
                         [ @ EXCEPT !.status = status, !.updated_at = now_iso ] ]
         /\ UNCHANGED <<tasks, specs, clock, issued, reviews_dir, reviews, logged>>

(* a slip in the cascade: the epic's files are removed, its tasks are kept *)
cmd_epic_delete_keeps_tasks(id) ==
    IF id \notin DOMAIN epics THEN error("Epic not found")
    ELSE /\ Writes
         /\ epics' = Remove(epics, id)
         /\ specs' = specs \ {id}
         /\ issued' = Remove(issued, id)
         /\ UNCHANGED <<tasks, clock, reviews_dir, reviews, logged>>

(* a slip in the cascade: the second glob, over the task documents, is left out *)
cmd_epic_delete_keeps_task_specs(id) ==
    IF id \notin DOMAIN epics THEN error("Epic not found")
    ELSE LET files == GlobTasks(tasks, id)
         IN  /\ Writes
             /\ epics' = Remove(epics, id)
             /\ tasks' = [ t \in (DOMAIN tasks) \ files |-> tasks[t] ]
             /\ specs' = specs \ {id}
             /\ issued' = Remove(issued, id)
             /\ UNCHANGED <<clock, reviews_dir, reviews, logged>>

cmd_epic_delete(id) ==
    IF id \notin DOMAIN epics THEN error("Epic not found")
    ELSE LET files == GlobTasks(tasks, id)
         IN  /\ Writes
             /\ epics' = Remove(epics, id)
             /\ tasks' = [ t \in (DOMAIN tasks) \ files |-> tasks[t] ]
             /\ specs' = { d \in specs \ {id} :
                             ~ ( /\ StartsWith(d, id \o <<".">>)
                                 /\ Len(d) >= Len(id) + 1 ) }
             /\ issued' = Remove(issued, id)
             /\ UNCHANGED <<clock, reviews_dir, reviews, logged>>

---------------------------------------------------------------------------
(* Commands: task *)

cmd_task_create(epic_id, title) ==
    IF epic_id \notin DOMAIN epics THEN error("Epic not found")
    ELSE LET task_num == get_next_task_number(tasks, epic_id)
             task_id  == TaskIdOf(epic_id, task_num)
             written  == Put(tasks, task_id, task_data(task_id, epic_id, title, now_iso))
         IN  /\ Writes
             /\ tasks' = written
             /\ specs' = specs \cup { task_id }
             /\ epics' = update_epic_task_counts(epics, written, epic_id, now_iso)
             /\ issued' = [ issued EXCEPT ![epic_id] = @ \cup { task_num } ]
             /\ UNCHANGED <<clock, reviews_dir, reviews, logged>>

(* a slip in start: started_at is stamped only when it is not yet set *)
cmd_task_start_keeps_started_at(id) ==
    IF id \notin DOMAIN tasks THEN error("Task not found")
    ELSE /\ Writes
         /\ tasks' = [ tasks EXCEPT ![id] =
                         [ @ EXCEPT !.status = "in_progress",
                                    !.started_at = IF @ = None THEN Some(now_iso) ELSE @,
                                    !.updated_at = now_iso ] ]
         /\ UNCHANGED <<epics, specs, clock, issued, reviews_dir, reviews, logged>>

cmd_task_start(id) ==
    IF id \notin DOMAIN tasks THEN error("Task not found")
    ELSE /\ Writes
         /\ tasks' = [ tasks EXCEPT ![id] =
                         [ @ EXCEPT !.status = "in_progress",
                                    !.started_at = Some(now_iso),
                                    !.updated_at = now_iso ] ]
         /\ UNCHANGED <<epics, specs, clock, issued, reviews_dir, reviews, logged>>

(* a slip in done: the command refuses a task whose dependencies are not
   all done *)
cmd_task_done_gated(id, summary) ==
    IF id \notin DOMAIN tasks THEN error("Task not found")
    ELSE IF \E i \in 1..Len(tasks[id].depends_on) :
               \/ tasks[id].depends_on[i] \notin DOMAIN tasks
               \/ tasks[tasks[id].depends_on[i]].status # "done"
         THEN error("Dependencies not done")
    ELSE LET task == [ tasks[id] EXCEPT
                         !.status = "done",
                         !.completed_at = Some(now_iso),
                         !.updated_at = now_iso,
                         !.done_summary = IF summary # "" THEN Some(summary) ELSE @ ]
             written == [ tasks EXCEPT ![id] = task ]
         IN  /\ Writes
             /\ tasks' = written
             /\ epics' = update_epic_task_counts(epics, written, task.epic_id, now_iso)
             /\ UNCHANGED <<specs, clock, issued, reviews_dir, reviews, logged>>

cmd_task_done(id, summary) ==
    IF id \notin DOMAIN tasks THEN error("Task not found")
    ELSE LET task == [ tasks[id] EXCEPT
                         !.status = "done",
                         !.completed_at = Some(now_iso),
                         !.updated_at = now_iso,
                         !.done_summary = IF summary # "" THEN Some(summary) ELSE @ ]
             written == [ tasks EXCEPT ![id] = task ]
         IN  /\ Writes
             /\ tasks' = written
             /\ epics' = update_epic_task_counts(epics, written, task.epic_id, now_iso)
             /\ UNCHANGED <<specs, clock, issued, reviews_dir, reviews, logged>>

cmd_task_block(id, reason) ==
    IF id \notin DOMAIN tasks THEN error("Task not found")
    ELSE IF reason = "" THEN error("--reason is required")
    ELSE /\ Writes
         /\ tasks' = [ tasks EXCEPT ![id] =
                         [ @ EXCEPT !.status = "blocked",
                                    !.blocked_by = Some(reason),
                                    !.updated_at = now_iso ] ]
         /\ UNCHANGED <<epics, specs, clock, issued, reviews_dir, reviews, logged>>

(* a slip in set-status: the status is written without the vocabulary check *)
cmd_task_set_status_unchecked(id, status) ==
    IF id \notin DOMAIN tasks THEN error("Task not found")
    ELSE LET task == [ tasks[id] EXCEPT !.status = status, !.updated_at = now_iso ]
             written == [ tasks EXCEPT ![id] = task ]
         IN  /\ Writes
             /\ tasks' = written
             /\ epics' = update_epic_task_counts(epics, written, task.epic_id, now_iso)
             /\ UNCHANGED <<specs, clock, issued, reviews_dir, reviews, logged>>

(* a slip in set-status: the stamps of the status the task leaves are cleared *)
cmd_task_set_status_clears_stamps(id, status) ==
    IF status \notin Range(TASK_STATUSES) THEN error("Invalid status")
    ELSE IF id \notin DOMAIN tasks THEN error("Task not found")
    ELSE LET task == [ tasks[id] EXCEPT
                         !.status = status, !.updated_at = now_iso,
                         !.completed_at = IF status # "done" THEN None ELSE @,
                         !.blocked_by = IF status # "blocked" THEN None ELSE @ ]
             written == [ tasks EXCEPT ![id] = task ]
         IN  /\ Writes
             /\ tasks' = written
             /\ epics' = update_epic_task_counts(epics, written, task.epic_id, now_iso)
             /\ UNCHANGED <<specs, clock, issued, reviews_dir, reviews, logged>>

cmd_task_set_status(id, status) ==
    IF status \notin Range(TASK_STATUSES) THEN error("Invalid status")
    ELSE IF id \notin DOMAIN tasks THEN error("Task not found")
    ELSE LET task == [ tasks[id] EXCEPT !.status = status, !.updated_at = now_iso ]
             written == [ tasks EXCEPT ![id] = task ]
         IN  /\ Writes
             /\ tasks' = written
             /\ epics' = update_epic_task_counts(epics, written, task.epic_id, now_iso)
             /\ UNCHANGED <<specs, clock, issued, reviews_dir, reviews, logged>>

(* a slip in set-depends: the record is written before the dependencies are
   verified, and the command then exits with the error *)
cmd_task_set_depends_write_first(id, deps) ==
    IF id \notin DOMAIN tasks THEN error("Task not found")
    ELSE LET written == [ tasks EXCEPT ![id] =
                            [ @ EXCEPT !.depends_on = deps, !.updated_at = now_iso ] ]
         IN  IF \E i \in 1..Len(deps) : deps[i] \notin DOMAIN tasks
             THEN /\ tasks' = written
                  /\ UNCHANGED <<epics, specs, clock, issued, ops, reviews_dir, reviews, logged>>
             ELSE /\ Writes
                  /\ tasks' = written
                  /\ UNCHANGED <<epics, specs, clock, issued, reviews_dir, reviews, logged>>

(* a slip in set-depends: the given list is appended to the one on record *)
cmd_task_set_depends_merged(id, deps) ==
    IF id \notin DOMAIN tasks THEN error("Task not found")
    ELSE IF \E i \in 1..Len(deps) : deps[i] \notin DOMAIN tasks
         THEN error("Dependency not found")
    ELSE /\ Writes
         /\ tasks' = [ tasks EXCEPT ![id] =
                         [ @ EXCEPT !.depends_on = @ \o deps, !.updated_at = now_iso ] ]
         /\ UNCHANGED <<epics, specs, clock, issued, reviews_dir, reviews, logged>>

cmd_task_set_depends(id, deps) ==
    IF id \notin DOMAIN tasks THEN error("Task not found")
    ELSE IF \E i \in 1..Len(deps) : deps[i] \notin DOMAIN tasks
         THEN error("Dependency not found")
    ELSE /\ Writes
         /\ tasks' = [ tasks EXCEPT ![id] =
                         [ @ EXCEPT !.depends_on = deps, !.updated_at = now_iso ] ]
         /\ UNCHANGED <<epics, specs, clock, issued, reviews_dir, reviews, logged>>

(* a slip in delete: the deleted id is taken out of the depends_on lists of
   the tasks that remain *)
cmd_task_delete_scrubs_dependents(id) ==
    IF id \notin DOMAIN tasks THEN error("Task not found")
    ELSE LET epic_id == tasks[id].epic_id
             written == [ t \in (DOMAIN tasks) \ {id} |->
                            [ tasks[t] EXCEPT !.depends_on = SelectSeq(@, LAMBDA d : d # id) ] ]
         IN  /\ Writes
             /\ tasks' = written
             /\ specs' = specs \ { id }
             /\ epics' = update_epic_task_counts(epics, written, epic_id, now_iso)
             /\ UNCHANGED <<clock, issued, reviews_dir, reviews, logged>>

cmd_task_delete(id) ==
    IF id \notin DOMAIN tasks THEN error("Task not found")
    ELSE LET epic_id == tasks[id].epic_id
             written == Remove(tasks, id)
         IN  /\ Writes
             /\ tasks' = written
             /\ specs' = specs \ { id }
             /\ epics' = update_epic_task_counts(epics, written, epic_id, now_iso)
             /\ UNCHANGED <<clock, issued, reviews_dir, reviews, logged>>

---------------------------------------------------------------------------
(* Dependency resolver: task ready --epic *)

(* the dict the command loads: the task records of the epic, by their id field *)
LoadEpicTasks(tk, epic_id) ==
    [ t \in { tk[f].id : f \in GlobTasks(tk, epic_id) } |-> tk[t] ]

(* a slip in the resolver: a dependency need only exist, whatever its status *)
ReadyDepsResolved_any_status(loaded, task) ==
    \A i \in 1..Len(task.depends_on) : task.depends_on[i] \in DOMAIN loaded

(* a slip in the resolver: a dependency that is not found is skipped *)
ReadyDepsResolved_skip_missing(loaded, task) ==
    \A i \in 1..Len(task.depends_on) :
        task.depends_on[i] \in DOMAIN loaded
        => loaded[task.depends_on[i]].status = "done"

ReadyDepsResolved(loaded, task) ==
    \A i \in 1..Len(task.depends_on) :
        /\ task.depends_on[i] \in DOMAIN loaded
        /\ loaded[task.depends_on[i]].status = "done"

(* a slip in the resolver: every pending task is reported, its dependencies
   are not looked at *)
TaskReady_pending_only(tk, epic_id) ==
    LET loaded == LoadEpicTasks(tk, epic_id)
    IN  Sorted({ t \in DOMAIN loaded : loaded[t].status = "pending" })

(* a slip in the resolver: the ready ids are printed in descending order *)
TaskReady_descending(tk, epic_id) ==
    LET loaded == LoadEpicTasks(tk, epic_id)
        ready  == { t \in DOMAIN loaded :
                      /\ loaded[t].status = "pending"
                      /\ ReadyDepsResolved(loaded, loaded[t]) }
        asc    == Sorted(ready)
    IN  [ i \in 1..Len(asc) |-> asc[Len(asc) + 1 - i] ]

TaskReady(tk, epic_id) ==
    LET loaded == LoadEpicTasks(tk, epic_id)
        ready  == { t \in DOMAIN loaded :
                      /\ loaded[t].status = "pending"
                      /\ ReadyDepsResolved(loaded, loaded[t]) }
    IN  Sorted(ready)

cmd_task_ready(epic) ==
    IF epic = <<>> THEN error("--epic is required")
    ELSE UNCHANGED state

---------------------------------------------------------------------------
(* Prioritizer: next *)

(* a slip in next: a dependency need only exist among the epic's tasks *)
NextDepsResolved_any_status(loaded, task) ==
    \A i \in 1..Len(task.depends_on) : task.depends_on[i] \in DOMAIN loaded

NextDepsResolved(loaded, task) ==
    \A i \in 1..Len(task.depends_on) :
        /\ task.depends_on[i] \in DOMAIN loaded
        /\ loaded[task.depends_on[i]].status = "done"

(* the first ready task of an epic, in the order of sorted(tasks.keys()) *)
NextReadyOf(tk, epic_id) ==
    LET loaded == LoadEpicTasks(tk, epic_id)
        keys   == Sorted(DOMAIN loaded)
        hits   == { i \in 1..Len(keys) :
                      /\ loaded[keys[i]].status = "pending"
                      /\ NextDepsResolved(loaded, loaded[keys[i]]) }
    IN  IF hits = {} THEN <<>>
        ELSE << keys[CHOOSE i \in hits : \A j \in hits : i <= j] >>

(* a slip in tier 1: the scan keeps the last in_progress task it meets *)
NextInProgress_last(tk) ==
    LET files == SortedPaths(DOMAIN tk)
        hits  == { i \in 1..Len(files) : tk[files[i]].status = "in_progress" }
    IN  IF hits = {} THEN <<>>
        ELSE << tk[files[CHOOSE i \in hits : \A j \in hits : j <= i]].id >>

NextInProgress(tk) ==
    LET files == SortedPaths(DOMAIN tk)
        hits  == { i \in 1..Len(files) : tk[files[i]].status = "in_progress" }
    IN  IF hits = {} THEN <<>>
        ELSE << tk[files[CHOOSE i \in hits : \A j \in hits : i <= j]].id >>

(* a slip in tier 2: the epic's status is not looked at *)
NextReady_any_epic_status(ep, tk) ==
    LET files == SortedPaths(DOMAIN ep)
        hits  == { i \in 1..Len(files) : NextReadyOf(tk, ep[files[i]].id) # <<>> }
    IN  IF hits = {} THEN <<>>
        ELSE NextReadyOf(tk, ep[files[CHOOSE i \in hits : \A j \in hits : i <= j]].id)

NextReady(ep, tk) ==
    LET files == SortedPaths(DOMAIN ep)
        hits  == { i \in 1..Len(files) :
                     /\ ep[files[i]].status \in { "ready", "in_progress" }
                     /\ NextReadyOf(tk, ep[files[i]].id) # <<>> }
    IN  IF hits = {} THEN <<>>
        ELSE NextReadyOf(tk, ep[files[CHOOSE i \in hits : \A j \in hits : i <= j]].id)

(* a slip in tier 3: the scan keeps the last planning epic it meets *)
NextPlanning_last(ep) ==
    LET files == SortedPaths(DOMAIN ep)
        hits  == { i \in 1..Len(files) : ep[files[i]].status = "planning" }
    IN  IF hits = {} THEN <<>>
        ELSE << ep[files[CHOOSE i \in hits : \A j \in hits : j <= i]].id >>

NextPlanning(ep) ==
    LET files == SortedPaths(DOMAIN ep)
        hits  == { i \in 1..Len(files) : ep[files[i]].status = "planning" }
    IN  IF hits = {} THEN <<>>
        ELSE << ep[files[CHOOSE i \in hits : \A j \in hits : i <= j]].id >>

NextUnit(ep, tk) ==
    IF NextInProgress(tk) # <<>> THEN << Line(NextInProgress(tk)[1], "in_progress") >>
    ELSE IF NextReady(ep, tk) # <<>> THEN << Line(NextReady(ep, tk)[1], "ready") >>
    ELSE IF NextPlanning(ep) # <<>> THEN << Line(NextPlanning(ep)[1], "needs_planning") >>
    ELSE <<>>

(* a slip in next: the ready task it returns is started on the way *)
cmd_next_starts_unit ==
    IF NextInProgress(tasks) # <<>> \/ NextReady(epics, tasks) = <<>> THEN UNCHANGED state
    ELSE /\ tasks' = [ tasks EXCEPT ![NextReady(epics, tasks)[1]] =
                         [ @ EXCEPT !.status = "in_progress" ] ]
         /\ UNCHANGED <<epics, specs, clock, issued, ops, reviews_dir, reviews, logged>>

cmd_next == UNCHANGED state

---------------------------------------------------------------------------
(* Reviews: review init, review log, review count.  The receipts live in
   reviews/, which no epic or task command reads or writes. *)

(* str.upper() on the verdicts a caller passes *)
Upper(v) ==
    CASE v = "ship" -> "SHIP"
      [] v = "needs_work" -> "NEEDS_WORK"
      [] v = "major_rethink" -> "MAJOR_RETHINK"
      [] OTHER -> v

parse_id(id_str) ==
    IF \E i \in 1..Len(id_str) : id_str[i] = "."
    THEN [ type |-> "task", epic_id |-> RSplitDot(id_str)[1] ]
    ELSE [ type |-> "epic", epic_id |-> id_str ]

(* the receipt's file name without .json: the timestamp has a resolution of
   one second, so two logs in the same second get the same name *)
ReceiptFile(task_id, timestamp) == task_id \o <<"-">> \o Digits(timestamp)

(* reviews_dir.glob(f"{task_id}-*.json") *)
GlobReviews(rv, task_id) ==
    { f \in DOMAIN rv :
        /\ StartsWith(f \o JsonExt, task_id \o <<"-">>)
        /\ Len(f \o JsonExt) >= Len(task_id) + 1 + Len(JsonExt) }

get_review_iteration(dir, rv, task_id) ==
    IF ~ dir THEN 1 ELSE Cardinality(GlobReviews(rv, task_id)) + 1

Logged(lg, task_id) == IF task_id \in DOMAIN lg THEN lg[task_id] ELSE 0

cmd_review_init ==
    IF reviews_dir THEN error("Reviews directory already exists")
    ELSE /\ reviews_dir' = TRUE
         /\ UNCHANGED <<epics, tasks, specs, clock, issued, ops, reviews, logged>>

cmd_review_log(task_id, verdict, notes) ==
    IF ~ reviews_dir THEN error("Review system not initialized")
    ELSE IF Upper(verdict) \notin Range(REVIEW_VERDICTS) THEN error("Invalid verdict")
    ELSE IF parse_id(task_id).type # "task" THEN error("Expected task ID")
    ELSE LET timestamp == now_iso
             receipt == [ type |-> "impl_review", task_id |-> task_id,
                          epic_id |-> parse_id(task_id).epic_id,
                          verdict |-> Upper(verdict), reviewer |-> "qa-auditor",
                          timestamp |-> timestamp, notes |-> notes,
                          iteration |-> get_review_iteration(reviews_dir, reviews, task_id) ]
         IN  /\ Logged(logged, task_id) < MaxLogs
             /\ reviews' = Put(reviews, ReceiptFile(task_id, timestamp), receipt)
             /\ logged' = Put(logged, task_id, Logged(logged, task_id) + 1)
             /\ UNCHANGED <<epics, tasks, specs, clock, issued, ops, reviews_dir>>

(* review count prints this number *)
ReviewCount(dir, rv, task_id) ==
    IF ~ dir THEN 0 ELSE get_review_iteration(dir, rv, task_id)

cmd_review_count(task_id) == UNCHANGED state

---------------------------------------------------------------------------
(* The store after taskctl init, and the commands a caller may issue *)

(* The ids a caller passes: those of the records that exist, and one that
   names no record (every command treats all missing ids alike) *)
MissingEpicId == EpicIdOf(MaxEpicNum + 1, CHOOSE s \in Suffixes : TRUE)
MissingTaskId == TaskIdOf(MissingEpicId, 1)

EpicArgs == (DOMAIN epics) \cup { MissingEpicId }
TaskArgs == (DOMAIN tasks) \cup { MissingTaskId }

(* deps: nargs="+", one or more task ids: the lists of ids of existing
   tasks, and one list that names a missing task (set-depends verifies every
   id before it writes, so all lists with a missing id fail alike) *)
DepLists ==
    (UNION { [ 1..n -> DOMAIN tasks ] : n \in 1..MaxDeps }) \cup { << MissingTaskId >> }

(* the ids a reviewer passes: two task ids and an epic id (review log does
   not look the task up) *)
ReviewArgs ==
    LET e == EpicIdOf(1, CHOOSE s \in Suffixes : TRUE)
    IN  { TaskIdOf(e, 1), TaskIdOf(e, 2), e }

(* task create, statement by statement *)

(* an invocation that has not started *)
Idle == [ pc |-> "idle", epic_id |-> <<>>, title |-> "", task_num |-> 0,
          task_id |-> <<>>, epic |-> None, total |-> 0, done |-> 0,
          written_at |-> 0 ]

Step(p, rec) == calls' = [ calls EXCEPT ![p] = rec ]

(* epic_path.exists(): without the epic the invocation ends in error() *)
task_create_exists(p, epic_id, title) ==
    /\ calls[p].pc = "idle"
    /\ IF epic_id \notin DOMAIN epics THEN UNCHANGED calls
       ELSE Step(p, [ Idle EXCEPT !.pc = "number", !.epic_id = epic_id,
                                  !.title = title ])
    /\ UNCHANGED <<state, last>>

(* task_num = get_next_task_number(root, args.epic_id): the directory is
   listed once *)
task_create_number(p) ==
    /\ calls[p].pc = "number"
    /\ LET task_num == get_next_task_number(tasks, calls[p].epic_id)
       IN  Step(p, [ calls[p] EXCEPT !.pc = "write_json", !.task_num = task_num,
                        !.task_id = TaskIdOf(calls[p].epic_id, task_num) ])
    /\ UNCHANGED <<state, last>>

(* a slip in the write: the file is opened for exclusive creation and an
   existing record is kept *)
task_create_write_json_exclusive(p) ==
    /\ calls[p].pc = "write_json"
    /\ Writes
    /\ tasks' = IF calls[p].task_id \in DOMAIN tasks THEN tasks
                ELSE Put(tasks, calls[p].task_id,
                         task_data(calls[p].task_id, calls[p].epic_id,
                                   calls[p].title, now_iso))
    /\ issued' = [ e \in DOMAIN issued |->
                     IF e = calls[p].epic_id THEN issued[e] \cup { calls[p].task_num }
                     ELSE issued[e] ]
    /\ Step(p, [ calls[p] EXCEPT !.pc = "write_text", !.written_at = ops' ])
    /\ UNCHANGED <<epics, specs, clock, reviews_dir, reviews, logged, last>>

(* write_json(root / "tasks" / f"{task_id}.json", task_data): open(path, "w")
   replaces whatever the file held *)
task_create_write_json(p) ==
    /\ calls[p].pc = "write_json"
    /\ Writes
    /\ tasks' = Put(tasks, calls[p].task_id,
                    task_data(calls[p].task_id, calls[p].epic_id,
                              calls[p].title, now_iso))
    /\ issued' = [ e \in DOMAIN issued |->
                     IF e = calls[p].epic_id THEN issued[e] \cup { calls[p].task_num }
                     ELSE issued[e] ]
    /\ Step(p, [ calls[p] EXCEPT !.pc = "write_text", !.written_at = ops' ])
    /\ UNCHANGED <<epics, specs, clock, reviews_dir, reviews, logged, last>>

(* write_text(root / "tasks" / f"{task_id}.md", spec_content) *)
task_create_write_text(p) ==
    /\ calls[p].pc = "write_text"
    /\ specs' = specs \cup { calls[p].task_id }
    /\ Step(p, [ calls[p] EXCEPT !.pc = "read_epic" ])
    /\ UNCHANGED <<epics, tasks, clock, issued, ops, reviews_dir, reviews, logged, last>>

(* update_epic_task_counts: epic_path.exists() and read_json(epic_path) *)
counts_read_epic(p) ==
    /\ calls[p].pc = "read_epic"
    /\ IF calls[p].epic_id \notin DOMAIN epics
       THEN Step(p, [ calls[p] EXCEPT !.pc = "out" ])
       ELSE Step(p, [ calls[p] EXCEPT !.pc = "scan",
                                      !.epic = Some(epics[calls[p].epic_id]) ])
    /\ UNCHANGED <<state, last>>

(* update_epic_task_counts: the glob of the epic's task files and the count
   of those that are done *)
counts_scan(p) ==
    /\ calls[p].pc = "scan"
    /\ LET files == GlobTasks(tasks, calls[p].epic_id)
       IN  Step(p, [ calls[p] EXCEPT
                       !.pc = "write_epic",
                       !.total = Cardinality(files),
                       !.done = Cardinality({ f \in files : tasks[f].status = "done" }) ])
    /\ UNCHANGED <<state, last>>

(* update_epic_task_counts: write_json(epic_path, epic), the record as this
   invocation read it with its own counts *)
counts_write_epic(p) ==
    /\ calls[p].pc = "write_epic"
    /\ epics' = Put(epics, calls[p].epic_id,
                    [ calls[p].epic[1] EXCEPT !.task_count = calls[p].total,
                                              !.tasks_done = calls[p].done,
                                              !.updated_at = now_iso ])
    /\ Step(p, [ calls[p] EXCEPT !.pc = "out" ])
    /\ UNCHANGED <<tasks, specs, clock, issued, ops, reviews_dir, reviews, logged, last>>

(* out(task_id): the invocation has succeeded *)
task_create_out(p) ==
    /\ calls[p].pc = "out"
    /\ Step(p, [ calls[p] EXCEPT !.pc = "done" ])
    /\ UNCHANGED <<state, last>>

---------------------------------------------------------------------------
Init ==
    /\ epics = << >>
    /\ tasks = << >>
    /\ specs = {}
    /\ clock = 0
    /\ issued = << >>
    /\ ops = 0
    /\ reviews_dir = FALSE
    /\ reviews = << >>
    /\ logged = << >>
    /\ last = [ cmd |-> "init", id |-> <<>>, arg |-> "", deps |-> <<>>,
                wrote |-> TRUE, removed |-> {}, before |-> None ]
    /\ calls = [ p \in Procs |-> Idle ]

Tick ==
    /\ clock < MaxClock
    /\ clock' = clock + 1
    /\ UNCHANGED <<epics, tasks, specs, issued, ops, reviews_dir, reviews, logged, last, calls>>

(* the command runs alone, from its first line to its last, and is not
   traced *)
Untraced == UNCHANGED <<last, calls>>

(* the trace of a command: its name, the id, the argument and the
   dependency list it was given, whether it ran to the end and wrote, the
   ids whose files it removed, and the addressed task record as it was
   before the command; the command runs alone *)
Trace(cmd, id, arg, deps) ==
    /\ UNCHANGED calls
    /\ last' = [ cmd |-> cmd, id |-> id, arg |-> arg, deps |-> deps,
              wrote |-> (ops' = ops + 1),
              removed |-> ((DOMAIN epics) \ (DOMAIN epics'))
                          \cup ((DOMAIN tasks) \ (DOMAIN tasks'))
                          \cup (specs \ specs'),
              before |-> IF id \in DOMAIN tasks THEN Some(tasks[id]) ELSE None ]

Traced(cmd, id, arg) == ops' <= MaxTracedOps /\ Trace(cmd, id, arg, <<>>)

(* the numbers the runs go up to: an epic or a task is created only while
   its number stays within the bound *)
EpicsBounded == get_next_epic_number(epics) <= MaxEpicNum
TasksBounded(epic_id) == get_next_task_number(tasks, epic_id) <= MaxTaskNum

Next ==
    \/ \E title \in Titles, suffix \in Suffixes : EpicsBounded /\ cmd_epic_create(title, suffix) /\ Untraced
    \/ \E id \in EpicArgs, status \in EpicStatusInputs : cmd_epic_set_status(id, status) /\ Untraced
    \/ \E id \in EpicArgs : cmd_epic_delete(id) /\ Untraced
    \/ \E epic_id \in EpicArgs, title \in Titles : TasksBounded(epic_id) /\ cmd_task_create(epic_id, title) /\ Untraced
    \/ \E id \in TaskArgs : cmd_task_start(id) /\ Untraced
    \/ \E id \in TaskArgs, summary \in Summaries : cmd_task_done(id, summary) /\ Untraced
    \/ \E id \in TaskArgs, reason \in Reasons : cmd_task_block(id, reason) /\ Untraced
    \/ \E id \in TaskArgs, status \in TaskStatusInputs : cmd_task_set_status(id, status) /\ Untraced
    \/ \E id \in TaskArgs, deps \in DepLists : cmd_task_set_depends(id, deps) /\ Untraced
    \/ \E epic \in EpicArgs \cup { <<>> } : cmd_task_ready(epic) /\ Untraced
    \/ \E id \in TaskArgs : cmd_task_delete(id) /\ Untraced
    \/ cmd_next /\ Untraced

Spec == Init /\ [][Next]_vars

SpecTimed == Init /\ [][Next \/ Tick]_vars

(* the same commands, each leaving its trace *)
NextTraced ==
    \/ \E title \in Titles, suffix \in Suffixes :
         EpicsBounded /\ cmd_epic_create(title, suffix) /\ Traced("epic create", <<>>, "")
    \/ \E id \in EpicArgs, status \in EpicStatusInputs :
         cmd_epic_set_status(id, status) /\ Traced("epic set-status", id, status)
    \/ \E id \in EpicArgs :
         cmd_epic_delete(id) /\ Traced("epic delete", id, "")
    \/ \E epic_id \in EpicArgs, title \in Titles :
         TasksBounded(epic_id) /\ cmd_task_create(epic_id, title) /\ Traced("task create", epic_id, "")
    \/ \E id \in TaskArgs :
         cmd_task_start(id) /\ Traced("task start", id, "")
    \/ \E id \in TaskArgs, summary \in Summaries :
         cmd_task_done(id, summary) /\ Traced("task done", id, summary)
    \/ \E id \in TaskArgs, reason \in Reasons :
         cmd_task_block(id, reason) /\ Traced("task block", id, reason)
    \/ \E id \in TaskArgs, status \in TaskStatusInputs :
         cmd_task_set_status(id, status) /\ Traced("task set-status", id, status)
    \/ \E id \in TaskArgs, deps \in DepLists :
         cmd_task_set_depends(id, deps)
         /\ ops' <= MaxTracedOps /\ Trace("task set-depends", id, "", deps)
    \/ \E epic \in EpicArgs \cup { <<>> } :
         cmd_task_ready(epic) /\ Traced("task ready", epic, "")
    \/ \E id \in TaskArgs :
         cmd_task_delete(id) /\ Traced("task delete", id, "")
    \/ cmd_next /\ Traced("next", <<>>, "")

SpecTraced == Init /\ [][NextTraced]_vars

(* the traced commands while the clock advances *)
SpecTracedTimed == Init /\ [][NextTraced \/ Tick]_vars

(* the commands that make and remove tasks and set their dependencies, each
   leaving its trace, while the clock advances *)
NextDepends ==
    \/ \E title \in Titles, suffix \in Suffixes :
         EpicsBounded /\ cmd_epic_create(title, suffix)
         /\ Trace("epic create", <<>>, "", <<>>)
    \/ \E epic_id \in EpicArgs, title \in Titles :
         TasksBounded(epic_id) /\ cmd_task_create(epic_id, title)
         /\ Trace("task create", epic_id, "", <<>>)
    \/ \E id \in TaskArgs, deps \in DepLists :
         cmd_task_set_depends(id, deps) /\ Trace("task set-depends", id, "", deps)
    \/ \E id \in TaskArgs :
         cmd_task_delete(id) /\ Trace("task delete", id, "", <<>>)
    \/ Tick

SpecDepends == Init /\ [][NextDepends]_vars

(* the commands that create and delete epics and tasks, each leaving its
   trace; the numbers go as far as the writes do *)
NextNumbering ==
    \/ \E title \in Titles, suffix \in Suffixes :
         cmd_epic_create(title, suffix) /\ Trace("epic create", <<>>, "", <<>>)
    \/ \E id \in EpicArgs :
         cmd_epic_delete(id) /\ Trace("epic delete", id, "", <<>>)
    \/ \E epic_id \in EpicArgs, title \in Titles :
         cmd_task_create(epic_id, title) /\ Trace("task create", epic_id, "", <<>>)
    \/ \E id \in TaskArgs :
         cmd_task_delete(id) /\ Trace("task delete", id, "", <<>>)

SpecNumbering == Init /\ [][NextNumbering]_vars

(* two task create invocations run with no lock between them: every step
   of either is one read or one write of the store; epic create runs beside
   them *)
NextRace ==
    \/ \E title \in Titles, suffix \in Suffixes :
         EpicsBounded /\ cmd_epic_create(title, suffix) /\ Untraced
    \/ \E p \in Procs, epic_id \in EpicArgs, title \in RaceTitles :
         task_create_exists(p, epic_id, title)
    \/ \E p \in Procs : task_create_number(p)
    \/ \E p \in Procs : task_create_write_json(p)
    \/ \E p \in Procs : task_create_write_text(p)
    \/ \E p \in Procs : counts_read_epic(p)
    \/ \E p \in Procs : counts_scan(p)
    \/ \E p \in Procs : counts_write_epic(p)
    \/ \E p \in Procs : task_create_out(p)

SpecRace == Init /\ [][NextRace]_vars

(* the review commands, while the clock advances *)
NextReview ==
    \/ cmd_review_init /\ Untraced
    \/ \E task_id \in ReviewArgs, verdict \in Verdicts, notes \in Notes :
         cmd_review_log(task_id, verdict, notes) /\ Untraced
    \/ \E task_id \in ReviewArgs : cmd_review_count(task_id) /\ Untraced
    \/ Tick

SpecReview == Init /\ [][NextReview]_vars

---------------------------------------------------------------------------
(* Vocabulary of the properties *)

(* the live task records that belong to an epic, by their epic_id field *)
TasksOf(tk, e) == { t \in DOMAIN tk : tk[t].epic_id = e }

TaskNumOf(id) == ParseInt(RSplitDot(id)[2])

(* the epic's counters match its live task records *)
Aggregated(ep, tk, e) ==
    /\ ep[e].task_count = Cardinality(TasksOf(tk, e))
    /\ ep[e].tasks_done =
           Cardinality({ t \in TasksOf(tk, e) : tk[t].status = "done" })

(* this step is a successful task command on a task of epic e *)
TaskMutationOn(e) ==
    /\ ops' = ops + 1
    /\ \/ \E title \in Titles : cmd_task_create(e, title)
       \/ \E id \in TasksOf(tasks, e) :
            \/ cmd_task_start(id)
            \/ \E summary \in Summaries : cmd_task_done(id, summary)
            \/ \E reason \in Reasons : cmd_task_block(id, reason)
            \/ \E status \in TaskStatusInputs : cmd_task_set_status(id, status)
            \/ \E deps \in DepLists : cmd_task_set_depends(id, deps)
            \/ cmd_task_delete(id)

(* task ready --epic <the task's epic> prints the task *)
Reported(tk, t) == \E i \in 1..Len(TaskReady(tk, tk[t].epic_id)) :
                       TaskReady(tk, tk[t].epic_id)[i] = t

(* readiness as the data model defines it, over the whole store *)
ReadyByDefinition(tk, e) ==
    { t \in TasksOf(tk, e) :
        /\ tk[t].status = "pending"
        /\ \A i \in 1..Len(tk[t].depends_on) :
              /\ tk[t].depends_on[i] \in DOMAIN tk
              /\ tk[tk[t].depends_on[i]].status = "done" }

DependsOn(tk, a, b) == \E i \in 1..Len(tk[a].depends_on) : tk[a].depends_on[i] = b

Cycle(tk, a, b) == DependsOn(tk, a, b) /\ DependsOn(tk, b, a)

Dangling(tk, t) == \E i \in 1..Len(tk[t].depends_on) :
                       tk[t].depends_on[i] \notin DOMAIN tk

(* the first of a set of identifiers in lexicographic order *)
First(S) == CHOOSE x \in S : \A y \in S \ {x} : LexLess(x, y)

InProgressTasks(tk) == { t \in DOMAIN tk : tk[t].status = "in_progress" }

(* the epics tier 2 of the prioritizer draws from: status ready or
   in_progress, and the resolver reports at least one task *)
ReadyEpics(ep, tk) ==
    { e \in DOMAIN ep : /\ ep[e].status \in { "ready", "in_progress" }
                        /\ TaskReady(tk, e) # <<>> }

PlanningEpics(ep) == { e \in DOMAIN ep : ep[e].status = "planning" }

(* the id is <epic id>.<n> *)
TaskOfEpic(t, e) ==
    /\ Len(RSplitDot(t)) = 2
    /\ RSplitDot(t)[1] = e
    /\ IsNumeric(RSplitDot(t)[2])

(* the commands that write to the store when they succeed *)
Mutating == { "epic set-status", "epic delete", "task create", "task start",
              "task done", "task block", "task set-status", "task set-depends",
              "task delete" }

Tagged(unit, tag) == unit # <<>> /\ unit[1].tag = tag

---------------------------------------------------------------------------
(* C1: after every successful task command on a task of epic E (create,
   start, done, block, set-status, set-depends, delete), E.task_count is the
   number of live task records of E and E.tasks_done the number of those
   whose status is done; also when start or block hits a done task. *)
C1_AggregationAfterTaskMutation ==
    [][ \A e \in DOMAIN epics :
            TaskMutationOn(e) => Aggregated(epics', tasks', e) ]_vars

(* C2: in every reachable state every epic has 0 <= tasks_done <= task_count *)
C2_CountsBounded ==
    \A e \in DOMAIN epics :
        /\ 0 <= epics[e].tasks_done
        /\ epics[e].tasks_done <= epics[e].task_count

(* C2: an epic whose counters are at the boundary, tasks_done = task_count,
   and stale: the task counted done has since been restarted *)
C2_Witness ==
    \E e \in DOMAIN epics :
        /\ epics[e].task_count >= 1
        /\ epics[e].tasks_done = epics[e].task_count
        /\ \A t \in TasksOf(tasks, e) : tasks[t].status = "in_progress"

(* C3: task ready --epic E reports exactly the tasks of E that are pending
   and whose every dependency names an existing task with status done, in
   whichever epic that dependency lives *)
C3_ReadyIsReadyByDefinition ==
    \A e \in DOMAIN epics :
        Range(TaskReady(tasks, e)) = ReadyByDefinition(tasks, e)

(* C4: task create returns a number strictly greater than every number it
   returned before for that epic *)
C4_TaskNumbersNeverReused ==
    [][ \A id \in (DOMAIN tasks') \ (DOMAIN tasks) :
            tasks'[id].epic_id \in DOMAIN issued
            => \A n \in issued[tasks'[id].epic_id] : TaskNumOf(id) > n ]_vars

(* C5: once a task is done or cancelled no command changes its status *)
C5_TaskTerminal ==
    [][ \A id \in (DOMAIN tasks) \cap (DOMAIN tasks') :
            tasks[id].status \in { "done", "cancelled" }
            => tasks'[id].status = tasks[id].status ]_vars

(* C6: once an epic is done or cancelled, epic set-status never changes its
   status *)
C6_EpicTerminal ==
    [][ \A id \in (DOMAIN epics) \cap (DOMAIN epics') :
            epics[id].status \in { "done", "cancelled" }
            => epics'[id].status = epics[id].status ]_vars

(* C7: a task becomes blocked only from pending or in_progress *)
C7_BlockedOnlyFromActive ==
    [][ \A id \in (DOMAIN tasks) \cap (DOMAIN tasks') :
            tasks'[id].status = "blocked" /\ tasks[id].status # "blocked"
            => tasks[id].status \in { "pending", "in_progress" } ]_vars

C9_ReadinessMonotonic ==
    [][ \A t \in (DOMAIN tasks) \cap (DOMAIN tasks') :
            Reported(tasks, t) /\ tasks'[t] = tasks[t]
            => Reported(tasks', t) ]_vars

(* C10: a pending task with a dependency id that names no existing task is
   neither printed by task ready nor returned as (ready) by next *)
C10_DanglingNeverReady ==
    \A t \in DOMAIN tasks :
        tasks[t].status = "pending" /\ Dangling(tasks, t)
        => /\ ~ Reported(tasks, t)
           /\ NextUnit(epics, tasks) # << Line(t, "ready") >>

(* C10: a pending task with a deleted dependency is the only candidate of a
   ready epic, and next has to look past it *)
C10_Witness ==
    \E t \in DOMAIN tasks :
        /\ tasks[t].status = "pending"
        /\ Dangling(tasks, t)
        /\ tasks[t].epic_id \in DOMAIN epics
        /\ epics[tasks[t].epic_id].status \in { "ready", "in_progress" }
        /\ NextInProgress(tasks) = <<>>

(* C11: whenever some task is in_progress, in whichever epic, next returns
   the first in_progress task in identifier order, tagged in_progress (and
   so neither a ready task nor a planning epic) *)
C11_Tier1InProgressFirst ==
    InProgressTasks(tasks) # {}
    => NextUnit(epics, tasks) = << Line(First(InProgressTasks(tasks)), "in_progress") >>

(* C11: two tasks are in_progress, one of them in an epic that is still
   planning, which tier 3 would otherwise return *)
C11_Witness ==
    /\ Cardinality(InProgressTasks(tasks)) >= 2
    /\ \E t \in InProgressTasks(tasks) : tasks[t].epic_id \in PlanningEpics(epics)

(* C12: when no task is in_progress and some epic with status ready or
   in_progress has a ready task, next returns, tagged ready, the first ready
   task of the first such epic; and a pending task of an epic with any other
   status is never returned as ready *)
C12_Tier2FirstReady ==
    /\ InProgressTasks(tasks) = {} /\ ReadyEpics(epics, tasks) # {}
       => NextUnit(epics, tasks) =
             << Line(TaskReady(tasks, First(ReadyEpics(epics, tasks)))[1], "ready") >>
    /\ \A t \in DOMAIN tasks :
          /\ tasks[t].status = "pending"
          /\ tasks[t].epic_id \in DOMAIN epics
          /\ epics[tasks[t].epic_id].status \notin { "ready", "in_progress" }
          => NextUnit(epics, tasks) # << Line(t, "ready") >>

(* C12: no task is in_progress; the first epic is not ready but has a task
   the resolver reports, and a later epic is ready and has one too *)
C12_Witness ==
    /\ InProgressTasks(tasks) = {}
    /\ \E e1 \in DOMAIN epics, e2 \in ReadyEpics(epics, tasks) :
          /\ LexLess(e1, e2)
          /\ epics[e1].status \notin { "ready", "in_progress" }
          /\ TaskReady(tasks, e1) # <<>>

(* C13: next returns an epic tagged needs_planning iff no task is
   in_progress, no ready/in_progress epic has a ready task and some epic is
   planning, and then it is the first planning epic; it returns nothing iff
   none of the three tiers has a match *)
C13_Tier3PlanningElseNothing ==
    LET t1 == InProgressTasks(tasks) # {}
        t2 == ReadyEpics(epics, tasks) # {}
        t3 == PlanningEpics(epics) # {}
        unit == NextUnit(epics, tasks)
    IN  /\ Tagged(unit, "needs_planning") <=> (~ t1 /\ ~ t2 /\ t3)
        /\ Tagged(unit, "needs_planning") => unit[1].id = First(PlanningEpics(epics))
        /\ unit = <<>> <=> (~ t1 /\ ~ t2 /\ ~ t3)

(* C13: two epics are planning, one of them with a pending task, and next
   has come down to tier 3 *)
C13_Witness ==
    /\ Cardinality(PlanningEpics(epics)) >= 2
    /\ \E t \in DOMAIN tasks : tasks[t].status = "pending"
    /\ Tagged(NextUnit(epics, tasks), "needs_planning")

(* C14: next and task ready are read-only: a step of either leaves every
   epic record, task record and specification document as it was *)
C14_QueriesReadOnly ==
    [][ last'.cmd \in { "next", "task ready" }
        => UNCHANGED <<epics, tasks, specs>> ]_vars

(* C14: task ready has just run on an epic with a task to report, in a store
   where next has a unit to return *)
C14_Witness ==
    /\ last.cmd = "task ready"
    /\ last.id \in DOMAIN epics
    /\ TaskReady(tasks, last.id) # <<>>
    /\ NextUnit(epics, tasks) # <<>>

(* C15: after epic delete E has succeeded, the epic record, the epic's
   document, every task record E.<n> and every such task's document are
   absent, so that any lookup of them finds nothing *)
C15_CascadeDelete ==
    last.cmd = "epic delete" /\ last.wrote
    => /\ last.id \notin DOMAIN epics
       /\ last.id \notin specs
       /\ \A t \in (DOMAIN tasks) \cup specs : ~ TaskOfEpic(t, last.id)

(* C15: an epic delete has just removed an epic together with a task of it *)
C15_Witness ==
    /\ last.cmd = "epic delete" /\ last.wrote
    /\ \E t \in last.removed : TaskOfEpic(t, last.id)

(* C16: a core operation that fails (it did not run to the end) leaves the
   whole persisted store exactly as it was before the call *)
C16_FailedLeavesStoreUntouched ==
    [][ last'.cmd \in Mutating /\ ~ last'.wrote
        => UNCHANGED <<epics, tasks, specs, reviews_dir, reviews>> ]_vars

(* C16: set-depends has just failed on an existing task, that is, on a
   dependency that names no task: the failure a partial write could precede *)
C16_Witness ==
    /\ last.cmd = "task set-depends" /\ ~ last.wrote
    /\ last.id \in DOMAIN tasks

(* C17: task set-status and epic set-status with a status outside their
   vocabulary fail, and no record, the addressed one's status and updated_at
   included, changes *)
C17_InvalidStatusRejected ==
    [][ \/ last'.cmd = "task set-status" /\ last'.arg \notin Range(TASK_STATUSES)
        \/ last'.cmd = "epic set-status" /\ last'.arg \notin Range(EPIC_STATUSES)
        => ~ last'.wrote /\ UNCHANGED <<epics, tasks>> ]_vars

(* C17: task set-status ready has just been refused on an existing task, at
   a second later than the task's updated_at *)
C17_Witness ==
    /\ last.cmd = "task set-status" /\ last.arg = "ready"
    /\ last.id \in DOMAIN tasks
    /\ tasks[last.id].updated_at < clock

(* C18: in every reachable state every task whose status is blocked has a
   non-empty blocked_by, whichever command blocked it *)
C18_BlockedHasReason ==
    \A t \in DOMAIN tasks :
        tasks[t].status = "blocked"
        => tasks[t].blocked_by # None /\ tasks[t].blocked_by # Some("")

(* C19: in every reachable state every task whose status is done has a
   completed_at, whichever command completed it *)
C19_DoneHasCompletedAt ==
    \A t \in DOMAIN tasks :
        tasks[t].status = "done" => tasks[t].completed_at # None

(* C20: after n successful review log calls for a task there are n receipts
   of the task, their iterations are exactly 1..n, and review count returns
   n + 1, whatever the timing of the calls *)
C20_ReviewIterationNumbering ==
    \A t \in DOMAIN logged :
        LET files == { f \in DOMAIN reviews : reviews[f].task_id = t }
        IN  /\ Cardinality(files) = logged[t]
            /\ { reviews[f].iteration : f \in files } = 1..logged[t]
            /\ ReviewCount(reviews_dir, reviews, t) = logged[t] + 1

(* C23: task start and task done succeed on every existing task, whatever
   the statuses of the tasks in its depends_on, missing ones included *)
C23_DependenciesAdvisory ==
    last.cmd \in { "task start", "task done" } /\ last.before # None
    => /\ last.wrote
       /\ last.id \in DOMAIN tasks
       /\ tasks[last.id].status =
              (IF last.cmd = "task start" THEN "in_progress" ELSE "done")

(* C23: task done has just completed a pending task whose one dependency, the
   task itself, was not done *)
C23_Witness ==
    /\ last.cmd = "task done" /\ last.wrote
    /\ last.before # None
    /\ last.before[1].status = "pending"
    /\ last.before[1].depends_on = << last.id >>

(* every record was updated no earlier than it was created *)
TimestampsOrdered(ep, tk) ==
    /\ \A e \in DOMAIN ep : ep[e].updated_at >= ep[e].created_at
    /\ \A t \in DOMAIN tk : tk[t].updated_at >= tk[t].created_at

(* C22: with a clock that never goes back, every epic and every task has
   updated_at >= created_at after every step, and the updated_at of a record
   that a step keeps never decreases *)
C22_TimestampsOrdered ==
    [][ /\ TimestampsOrdered(epics', tasks')
        /\ \A e \in (DOMAIN epics) \cap (DOMAIN epics') :
               epics'[e].updated_at >= epics[e].updated_at
        /\ \A t \in (DOMAIN tasks) \cap (DOMAIN tasks') :
               tasks'[t].updated_at >= tasks[t].updated_at ]_vars

(* C22: a command has just rewritten a task at a later second than the one
   the task was created in, and its epic too *)
C22_Witness ==
    /\ last.wrote /\ last.before # None
    /\ last.id \in DOMAIN tasks
    /\ tasks[last.id].updated_at > last.before[1].updated_at
    /\ tasks[last.id].updated_at > tasks[last.id].created_at
    /\ \E e \in DOMAIN epics : epics[e].updated_at > epics[e].created_at

(* C27: a task set-depends that succeeded was given only ids of existing
   tasks and left exactly the given list in depends_on; one that failed left
   the addressed task record, depends_on and updated_at included, as it was *)
C27_SetDependsValidatesFirst ==
    last.cmd = "task set-depends"
    => IF last.wrote
       THEN /\ \A i \in 1..Len(last.deps) : last.deps[i] \in DOMAIN tasks
            /\ tasks[last.id].depends_on = last.deps
       ELSE /\ \/ last.before = None
               \/ \E i \in 1..Len(last.deps) : last.deps[i] \notin DOMAIN tasks
            /\ last.before # None
               => last.id \in DOMAIN tasks /\ tasks[last.id] = last.before[1]

(* C27: set-depends has just replaced a non-empty list by a list that holds
   none of the earlier dependencies *)
C27_Witness ==
    /\ last.cmd = "task set-depends" /\ last.wrote
    /\ last.before[1].depends_on # <<>>
    /\ Range(last.before[1].depends_on) \cap Range(last.deps) = {}
    /\ tasks[last.id].depends_on = last.deps

(* C28: every task start that succeeds leaves the task in_progress with
   started_at at the current second, whatever its status and started_at were *)
C28_StartOverwritesStartedAt ==
    [][ ops' = ops + 1 /\ last'.cmd = "task start"
        => /\ tasks'[last'.id].status = "in_progress"
           /\ tasks'[last'.id].started_at = Some(clock') ]_vars

(* C28: task start has just replaced the started_at of an earlier start by a
   later second *)
C28_Witness ==
    /\ last.cmd = "task start" /\ last.wrote
    /\ last.before # None
    /\ last.before[1].started_at # None
    /\ tasks[last.id].started_at # last.before[1].started_at

(* C26: a pending task T2 whose only dependency is T1 of the same epic is
   reported by task ready for that epic exactly when T1 is done; while T1 is
   pending with no dependencies, T1 is reported and T2 is not *)
C26_SameEpicGating ==
    \A t1 \in DOMAIN tasks, t2 \in DOMAIN tasks :
        /\ tasks[t1].epic_id = tasks[t2].epic_id
        /\ tasks[t2].status = "pending"
        /\ Range(tasks[t2].depends_on) = { t1 }
        => /\ Reported(tasks, t2) <=> tasks[t1].status = "done"
           /\ tasks[t1].status = "pending" /\ tasks[t1].depends_on = <<>>
              => Reported(tasks, t1) /\ ~ Reported(tasks, t2)

(* C26: the first task was marked done and the pending second task, which
   depends on it alone, is now reported *)
C26_Witness ==
    \E t1 \in DOMAIN tasks, t2 \in DOMAIN tasks :
        /\ t1 # t2
        /\ tasks[t1].epic_id = tasks[t2].epic_id
        /\ tasks[t2].status = "pending"
        /\ tasks[t2].depends_on = << t1 >>
        /\ tasks[t1].status = "done" /\ tasks[t1].completed_at # None
        /\ TaskReady(tasks, tasks[t2].epic_id) = << t2 >>

(* C29: the ids task ready prints for an epic are in strictly ascending
   lexicographic order, hence without duplicates, and are the same list
   whatever order the files are met in *)
C29_ReadySorted ==
    \A e \in EpicArgs :
        LET ready == TaskReady(tasks, e)
        IN  \A i \in 1..Len(ready), j \in 1..Len(ready) :
                i < j => LexLess(ready[i], ready[j])

(* C29: task ready prints two ids or more for an epic *)
C29_Witness ==
    \E e \in DOMAIN epics : Len(TaskReady(tasks, e)) >= 2

(* C30: when next returns a task tagged ready, the task is the first id that
   task ready prints for the task's epic, and task ready prints nothing for
   every ready or in_progress epic with a smaller id *)
C30_NextAgreesWithReady ==
    LET unit == NextUnit(epics, tasks)
    IN  Tagged(unit, "ready")
        => /\ unit[1].id \in DOMAIN tasks
           /\ LET e == tasks[unit[1].id].epic_id
              IN  /\ TaskReady(tasks, e) # <<>>
                  /\ TaskReady(tasks, e)[1] = unit[1].id
                  /\ \A e2 \in DOMAIN epics :
                         /\ epics[e2].status \in { "ready", "in_progress" }
                         /\ LexLess(e2, e)
                         => TaskReady(tasks, e2) = <<>>

(* C30: next returns a ready task of the second epic while the first epic is
   ready too and task ready prints nothing for it *)
C30_Witness ==
    /\ Tagged(NextUnit(epics, tasks), "ready")
    /\ \E e2 \in DOMAIN epics :
           /\ epics[e2].status \in { "ready", "in_progress" }
           /\ LexLess(e2, tasks[NextUnit(epics, tasks)[1].id].epic_id)

EpicNumOf(id) == ParseInt(Split(id, "-")[2])

EpicNums(ep) == { EpicNumOf(e) : e \in DOMAIN ep }

TaskNums(tk, e) == { TaskNumOf(t) : t \in TasksOf(tk, e) }

(* C24: a task create on epic E that succeeds adds one record, under an id
   no live record has, numbered 1 + the largest number among the live tasks
   of E (1 when E has none), and leaves every record that existed as it was *)
C24_TaskCreateFreshId ==
    [][ ops' = ops + 1 /\ last'.cmd = "task create"
        => LET new == TaskIdOf(last'.id, 1 + Max(TaskNums(tasks, last'.id)))
           IN  /\ new \notin DOMAIN tasks
               /\ DOMAIN tasks' = (DOMAIN tasks) \cup { new }
               /\ tasks'[new].id = new
               /\ \A t \in DOMAIN tasks : tasks'[t] = tasks[t] ]_vars

(* C24: a task was just created in an epic whose live task numbers have a
   gap below the largest *)
C24_Witness ==
    /\ last.cmd = "task create" /\ last.wrote
    /\ \E n \in 1..Max(TaskNums(tasks, last.id)) : n \notin TaskNums(tasks, last.id)
    /\ Cardinality(TaskNums(tasks, last.id)) >= 2

(* C25: epic create gives the new epic the number 1 + the largest number
   among the existing epics (1 when there is none): a number above that of
   every existing epic, so that no gap below the largest is filled *)
C25_EpicNumberAboveAll ==
    [][ ops' = ops + 1 /\ last'.cmd = "epic create"
        => \E new \in (DOMAIN epics') \ (DOMAIN epics) :
               /\ DOMAIN epics' = (DOMAIN epics) \cup { new }
               /\ EpicNumOf(new) = 1 + Max(EpicNums(epics))
               /\ \A e \in DOMAIN epics : EpicNumOf(new) > EpicNumOf(e) ]_vars

(* C25: an epic was just created while a number below the largest is held
   by no epic *)
C25_Witness ==
    /\ last.cmd = "epic create" /\ last.wrote
    /\ \E n \in 1..Max(EpicNums(epics)) : n \notin EpicNums(epics)
    /\ Cardinality(EpicNums(epics)) >= 2

(* the invocation has written its record *)
HasWritten(p) == calls[p].written_at > 0

(* both invocations computed the same number for the same epic *)
SameNumber(p, q) ==
    /\ p # q
    /\ calls[p].pc # "idle" /\ calls[q].pc # "idle"
    /\ calls[p].epic_id = calls[q].epic_id
    /\ calls[p].task_num > 0 /\ calls[p].task_num = calls[q].task_num

(* C21: with no lock between two task create invocations on one epic, both
   can compute the same number; when both have then written, the task file
   holds the record of the later writer alone and the earlier record is
   gone: the epic has one live task under that number for two creates *)
C21_RaceOverwrites ==
    \A p \in Procs, q \in Procs :
        /\ SameNumber(p, q)
        /\ HasWritten(p) /\ HasWritten(q)
        /\ calls[p].written_at < calls[q].written_at
        => /\ calls[p].task_id = calls[q].task_id
           /\ calls[q].task_id \in DOMAIN tasks
           /\ tasks[calls[q].task_id].title = calls[q].title
           /\ calls[p].title # calls[q].title
              => \A t \in DOMAIN tasks : tasks[t].title # calls[p].title

(* C21: both invocations have succeeded with the same number and the epic
   has a single live task, the later writer's *)
C21_Witness ==
    \E p \in Procs, q \in Procs :
        /\ SameNumber(p, q)
        /\ calls[p].pc = "done" /\ calls[q].pc = "done"
        /\ calls[p].written_at < calls[q].written_at
        /\ calls[p].title # calls[q].title
        /\ TasksOf(tasks, calls[p].epic_id) = { calls[q].task_id }
        /\ tasks[calls[q].task_id].title = calls[q].title
        /\ ops = 3

(* C31: in every reachable state every live task is filed under its own id,
   its epic_id names an existing epic, and its id is that epic_id followed by
   a dot and a number *)
C31_ReferentialIntegrity ==
    \A t \in DOMAIN tasks :
        /\ tasks[t].id = t
        /\ tasks[t].epic_id \in DOMAIN epics
        /\ TaskOfEpic(t, tasks[t].epic_id)

(* C31: a task lives under the second epic after the first epic was deleted *)
C31_Witness ==
    /\ \E t \in DOMAIN tasks : EpicNumOf(tasks[t].epic_id) = 2
    /\ 1 \notin EpicNums(epics)

(* C33: in every reachable state the status of every task is one of
   TASK_STATUSES and the status of every epic is one of EPIC_STATUSES *)
C33_StatusVocabulary ==
    /\ \A t \in DOMAIN tasks :
           tasks[t].status \in { "pending", "in_progress", "blocked", "done", "cancelled" }
    /\ \A e \in DOMAIN epics :
           epics[e].status \in { "planning", "ready", "in_progress", "blocked",
                                 "done", "cancelled" }

(* C33: set-status has been used on both kinds: a task is cancelled, which
   only task set-status writes, and so is its epic, which only epic
   set-status writes *)
C33_Witness ==
    \E t \in DOMAIN tasks :
        /\ tasks[t].status = "cancelled"
        /\ tasks[t].epic_id \in DOMAIN epics
        /\ epics[tasks[t].epic_id].status = "cancelled"

(* the commands that operate on tasks *)
TaskCommands == { "task create", "task start", "task done", "task block",
                  "task set-status", "task set-depends", "task delete" }

(* C32: no task command (create, start, done, block, set-status,
   set-depends, delete) adds or removes an epic or changes the status of
   one: an epic whose tasks are all done keeps the status it had *)
C32_EpicStatusNotDerived ==
    [][ last'.cmd \in TaskCommands
        => /\ DOMAIN epics' = DOMAIN epics
           /\ \A e \in DOMAIN epics : epics'[e].status = epics[e].status ]_vars

(* C32: task done has just completed the last open task of an epic that was
   set ready, the counters say all done, and the epic is still ready *)
C32_Witness ==
    /\ last.cmd = "task done" /\ last.wrote
    /\ last.before # None
    /\ LET e == last.before[1].epic_id
       IN  /\ e \in DOMAIN epics
           /\ epics[e].status = "ready"
           /\ epics[e].task_count >= 1
           /\ epics[e].tasks_done = epics[e].task_count
           /\ \A t \in TasksOf(tasks, e) : tasks[t].status = "done"

(* C35: a task set-status that succeeds leaves the record as it was but for
   status, which is the one given, and updated_at: started_at, completed_at,
   blocked_by, done_summary and depends_on keep their values *)
C35_SetStatusWritesStatusOnly ==
    last.cmd = "task set-status" /\ last.wrote
    => /\ last.before # None
       /\ last.id \in DOMAIN tasks
       /\ tasks[last.id] = [ last.before[1] EXCEPT !.status = last.arg,
                                                  !.updated_at = clock ]

(* C35: task set-status has just moved a done task to another status and
   completed_at and done_summary are still on the record *)
C35_Witness ==
    /\ last.cmd = "task set-status" /\ last.wrote
    /\ last.before # None
    /\ last.before[1].status = "done"
    /\ tasks[last.id].status # "done"
    /\ tasks[last.id].completed_at # None
    /\ tasks[last.id].done_summary # None

(* this step is task start, done, block, set-status, set-depends or delete
   on the task id, with whichever arguments *)
TaskOperationOn(id) ==
    \/ cmd_task_start(id)
    \/ \E summary \in Summaries : cmd_task_done(id, summary)
    \/ \E reason \in Reasons : cmd_task_block(id, reason)
    \/ \E status \in TaskStatusInputs : cmd_task_set_status(id, status)
    \/ \E deps \in DepLists : cmd_task_set_depends(id, deps)
    \/ cmd_task_delete(id)

(* this step leaves every task but id as it was, and every epic but the
   epic of id *)
OthersUntouched(id) ==
    /\ \A t \in (DOMAIN tasks) \ { id } :
           t \in DOMAIN tasks' /\ tasks'[t] = tasks[t]
    /\ \A e \in (DOMAIN epics) \ { tasks[id].epic_id } :
           e \in DOMAIN epics' /\ epics'[e] = epics[e]

(* C34: task start, done, block, set-status, set-depends and delete on a
   task T leave every other task record as it was, the depends_on lists that
   name T included, and leave every epic but T's own as it was: a step that
   changes another task or another epic is none of these commands on T *)
C34_TaskOperationFrame ==
    [][ \A id \in DOMAIN tasks :
            ~ OthersUntouched(id) => ~ TaskOperationOn(id) ]_vars

(* C34: a task of a live epic still lists a sibling that task delete has
   removed, beside a second epic *)
C34_Witness ==
    \E t \in DOMAIN tasks :
        /\ \E i \in 1..Len(tasks[t].depends_on) :
               /\ tasks[t].depends_on[i] \notin DOMAIN tasks
               /\ TaskOfEpic(tasks[t].depends_on[i], tasks[t].epic_id)
        /\ \E e \in DOMAIN epics : e # tasks[t].epic_id

===========================================================================
